---------------------------- MODULE Spec2Model ----------------------------
(***************************************************************************)
(* Model of package ftdc, compare.go: the metric filter isCmpMetric, the   *)
(* per-metric comparator compareMetrics and the aggregate Proximal, with   *)
(* the package-level tunable CmpThreshold.                                 *)
(*                                                                         *)
(* float64 values are modelled as exact fractions <<n, d>> in lowest terms *)
(* with d >= 0; d = 0 stands for the IEEE results of a division by zero    *)
(* (<<0, 0>> is NaN, <<1, 0>> is +Inf, <<-1, 0>> is -Inf).  Rounding of    *)
(* float64 arithmetic is not modelled.  The result of math.Sqrt is kept as *)
(* the record [nan, sq]: NaN, or the non-negative number whose square is   *)
(* sq.  A formatted message is the sequence of its lines, each line the    *)
(* record of the values fmt.Sprintf prints.                                *)
(***************************************************************************)
EXTENDS Integers, Sequences, FiniteSets, TLC

VARIABLES CmpThreshold, a, b, key, called, usedThreshold,
          acc0, scores, acc, msg, score, ok, ret, cmp

vars == <<CmpThreshold, a, b, key, called, usedThreshold,
          acc0, scores, acc, msg, score, ok, ret, cmp>>

(***************************************************************************)
(* Bounds of the model.                                                    *)
(***************************************************************************)
MaxMetrics == 3

MaxChunks == 4

MaxAbs == 3

(***************************************************************************)
(* float64 arithmetic on fractions.                                        *)
(***************************************************************************)
Abs(x) == IF x < 0 THEN -x ELSE x

Sign(x) == IF x < 0 THEN -1 ELSE IF x > 0 THEN 1 ELSE 0

RECURSIVE Gcd(_, _)
Gcd(x, y) == IF y = 0 THEN x ELSE Gcd(y, x % y)

FNorm(n, d) ==
    IF d = 0 THEN <<Sign(n), 0>>
    ELSE LET g == Gcd(Abs(n), Abs(d))
             s == Sign(d)
         IN  <<(s * n) \div g, (s * d) \div g>>

F(i) == <<i, 1>>

NaN == <<0, 0>>

IsNaN(x) == x = NaN

IsFinite(x) == x[2] > 0

FAdd(x, y) ==
    IF IsFinite(x) /\ IsFinite(y)
    THEN FNorm(x[1] * y[2] + y[1] * x[2], x[2] * y[2])
    ELSE NaN

FSub(x, y) == FAdd(x, <<-y[1], y[2]>>)

FMul(x, y) ==
    IF IsFinite(x) /\ IsFinite(y)
    THEN FNorm(x[1] * y[1], x[2] * y[2])
    ELSE NaN

FDiv(x, y) ==
    IF IsFinite(x) /\ IsFinite(y)
    THEN FNorm(x[1] * y[2], x[2] * y[1])
    ELSE NaN

FAbs(x) == <<Abs(x[1]), x[2]>>

FLt(x, y) == ~IsNaN(x) /\ ~IsNaN(y) /\ x[1] * y[2] < y[1] * x[2]

FGt(x, y) == FLt(y, x)

FLe(x, y) == ~IsNaN(x) /\ ~IsNaN(y) /\ x[1] * y[2] <= y[1] * x[2]

FGe(x, y) == FLe(y, x)

FMax(x, y) == IF IsNaN(x) \/ IsNaN(y) THEN NaN ELSE IF FLt(x, y) THEN y ELSE x

RECURSIVE Pow2(_)
Pow2(n) == IF n = 0 THEN 1 ELSE 2 * Pow2(n - 1)

\* math.Pow(2, -float64(n)) for n >= 0
PowNeg2(n) == <<1, Pow2(n)>>

\* math.Sqrt: NaN for a negative or NaN argument
Sqrt(x) ==
    IF IsNaN(x) \/ FLt(x, F(0)) THEN [nan |-> TRUE, sq |-> F(0)]
    ELSE [nan |-> FALSE, sq |-> x]

\* s >= r, for s a result of Sqrt and r a fraction
SqrtGe(s, r) ==
    /\ ~s.nan
    /\ ~IsNaN(r)
    /\ \/ FLe(r, F(0))
       \/ FGe(s.sq, FMul(r, r))

\* int(x) for a non-negative fraction x: truncation
intOf(x) == x[1] \div x[2]

(***************************************************************************)
(* Package-level values.                                                   *)
(***************************************************************************)
DefaultCmpThreshold == <<1, 5>>

cmpMetrics ==
    { "end",
      "start",
      "serverStatus.start",
      "serverStatus.end",
      "serverStatus.asserts",
      "serverStatus.mem.mapped",
      "serverStatus.mem.mappedWithJournal",
      "serverStatus.mem.resident",
      "serverStatus.mem.supported",
      "serverStatus.mem.virtual",
      "serverStatus.metrics.commands",
      "serverStatus.metrics.cursor.open",
      "serverStatus.metrics.document",
      "serverStatus.metrics.operation",
      "serverStatus.metrics.queryExecutor",
      "serverStatus.metrics.record",
      "serverStatus.metrics.repl",
      "serverStatus.metrics.storage",
      "serverStatus.metrics.ttl",
      "serverStatus.opcounters",
      "serverStatus.opcountersRepl",
      "serverStatus.wiredTiger.LSM",
      "serverStatus.wiredTiger.async",
      "serverStatus.wiredTiger.block-manager",
      "serverStatus.wiredTiger.cache",
      "serverStatus.wiredTiger.concurrentTransactions",
      "serverStatus.wiredTiger.data-handle",
      "serverStatus.wiredTiger.reconciliation",
      "serverStatus.wiredTiger.session",
      "serverStatus.writeBacksQueued" }

badTimePenalty == <<-1, 10>>

(***************************************************************************)
(* isCmpMetric                                                             *)
(***************************************************************************)
\* strings.Split(s, "."): the segments between the dots, at least one
RECURSIVE SplitFrom(_, _, _, _)
SplitFrom(s, i, cur, out) ==
    IF i > Len(s) THEN Append(out, cur)
    ELSE IF SubSeq(s, i, i) = "."
         THEN SplitFrom(s, i + 1, "", Append(out, cur))
         ELSE SplitFrom(s, i + 1, cur \o SubSeq(s, i, i), out)

Split(s) == SplitFrom(s, 1, "", <<>>)

\* strings.Join(segs, ".")
RECURSIVE Join(_)
Join(segs) ==
    IF Len(segs) = 0 THEN ""
    ELSE IF Len(segs) = 1 THEN segs[1]
         ELSE segs[1] \o "." \o Join(Tail(segs))

\* the loop of isCmpMetric from index i (1-based) on
RECURSIVE isCmpMetricFrom(_, _)
isCmpMetricFrom(s, i) ==
    IF i > Len(s) THEN FALSE
    ELSE IF Join(SubSeq(s, 1, i)) \in cmpMetrics THEN TRUE
         ELSE isCmpMetricFrom(s, i + 1)

\* isCmpMetric matching an entry as a prefix of the characters of the key
isCmpMetric_hasPrefix(k) ==
    \E e \in cmpMetrics : Len(k) >= Len(e) /\ SubSeq(k, 1, Len(e)) = e

isCmpMetric(k) == isCmpMetricFrom(Split(k), 1)


(***************************************************************************)
(* compareMetrics                                                          *)
(***************************************************************************)
\* int(CmpThreshold*100), as printed in the messages
thresholdPercent == intOf(FMul(CmpThreshold, F(100)))

\* the line "metric '<key>' not proximal: deviations (x, y) are not within
\* threshold (pct)"
deviationsLine(k, x, y) ==
    [kind |-> "deviations", key |-> k, x |-> x, y |-> y, pct |-> thresholdPercent]

\* the line "metric '<key>' not proximal: medians (x, y) are not within
\* threshold (pct)"
mediansLine(k, x, y) ==
    [kind |-> "medians", key |-> k, x |-> x, y |-> y, pct |-> thresholdPercent]

\* maxAbs taking the smaller of the two magnitudes
maxAbs_min(x, y) ==
    IF FLt(FAbs(F(x)), FAbs(F(y))) THEN FAbs(F(x)) ELSE FAbs(F(y))

\* math.Max(math.Abs(float64(x)), math.Abs(float64(y)))
maxAbs(x, y) == FMax(FAbs(F(x)), FAbs(F(y)))

\* math.Abs(float64(x-y)) / m
relDiff(x, y, m) == FDiv(FAbs(F(x - y)), m)

\* metricScore with the sign of relmad slipped
metricScore_plus(relmed, relmad) == FMul(FSub(F(1), relmed), FAdd(F(1), relmad))

\* (1 - relmed) * (1 - relmad)
metricScore(relmed, relmad) == FMul(FSub(F(1), relmed), FSub(F(1), relmad))

\* whether a relative difference gets its message line
notWithin(rel) == FGt(rel, CmpThreshold)

compareMetrics(sa, sb, k) ==
    LET am == sa.Metrics[k]
        bm == sb.Metrics[k]
        maxmad == maxAbs(am.MAD, bm.MAD)
        maxmed == maxAbs(am.Median, bm.Median)
        relmad == relDiff(am.MAD, bm.MAD, maxmad)
        relmed == relDiff(am.Median, bm.Median, maxmed)
    IN  IF am.Median = bm.Median THEN [num |-> F(1), msg |-> <<>>]
        ELSE IF maxmad = F(0) \/ maxmed = F(0) THEN [num |-> F(1), msg |-> <<>>]
        ELSE [num |-> metricScore(relmed, relmad),
              msg |-> (IF notWithin(relmad)
                       THEN <<deviationsLine(k, am.MAD, bm.MAD)>> ELSE <<>>)
                      \o
                      (IF notWithin(relmed)
                       THEN <<mediansLine(k, am.Median, bm.Median)>> ELSE <<>>)]

(***************************************************************************)
(* Proximal                                                                *)
(***************************************************************************)
\* the line "sample count not proximal: (x, y) are not within threshold
\* (pct%)"
sampleCountLine(x, y) ==
    [kind |-> "sample count", key |-> "", x |-> x, y |-> y, pct |-> thresholdPercent]

\* sampleCountNotProximal with >= for >
sampleCountNotProximal_ge(sa, sb) ==
    LET aCount == F(sa.NSamples)
        bCount == F(sb.NSamples)
        diff == FAbs(FSub(aCount, bCount))
        max == FMax(aCount, bCount)
    IN  FGe(FDiv(diff, max), CmpThreshold)

\* diff/max > CmpThreshold on the two sample counts
sampleCountNotProximal(sa, sb) ==
    LET aCount == F(sa.NSamples)
        bCount == F(sb.NSamples)
        diff == FAbs(FSub(aCount, bCount))
        max == FMax(aCount, bCount)
    IN  FGt(FDiv(diff, max), CmpThreshold)

\* the keys the loop over a.Metrics keeps
comparedKeys(sa, sb) ==
    {k \in DOMAIN sa.Metrics : k \in DOMAIN sb.Metrics /\ isCmpMetric(k)}

\* cmpScores.Less
Less(s, i, j) == FLt(s[i].num, s[j].num)

\* what sort.Sort guarantees of its result
isSorted(s) == \A i, j \in 1..Len(s) : i < j => ~Less(s, j, i)

\* the orders in which range visits the keys ks of a map: any
RECURSIVE iterationOrders(_)
iterationOrders(ks) ==
    IF ks = {} THEN {<<>>}
    ELSE UNION {{<<k>> \o o : o \in iterationOrders(ks \ {k})} : k \in ks}

\* the orders in which the scores of the keys ks can stand after the loop over
\* the map (any iteration order) and sort.Sort (not stable)
sortedScores(sa, sb, ks) ==
    LET cm == [k \in ks |-> compareMetrics(sa, sb, k)]
        scoresOf(o) == [i \in 1..Len(o) |-> cm[o[i]]]
    IN  {s \in {scoresOf(o) : o \in iterationOrders(ks)} : isSorted(s)}

\* weight with the exponent off by one: 1, 1/2, 1/4, ...
weight_offByOne(i) == PowNeg2(i)

\* the weight of the score at index i (0-based)
weight(i) == PowNeg2(i + 1)

\* score after the weighting loop, started at index i (1-based) with value sc
RECURSIVE weightedSum(_, _, _)
weightedSum(s, i, sc) ==
    IF i > Len(s) THEN sc
    ELSE weightedSum(s, i + 1, FAdd(sc, FMul(weight(i - 1), s[i].num)))

\* the concatenation of the messages of s from index i on
RECURSIVE bufString(_, _)
bufString(s, i) ==
    IF i > Len(s) THEN <<>> ELSE s[i].msg \o bufString(s, i + 1)

\* thresholdMet comparing with the threshold itself
thresholdMet_raw(sc) == SqrtGe(sc, CmpThreshold)

\* ok = score >= (1 - CmpThreshold)
thresholdMet(sc) == SqrtGe(sc, FSub(F(1), CmpThreshold))

\* The local sumScores is written and never read; it is left out.
Proximal ==
    /\ called \in {"none", "Proximal"}
    /\ \E s \in sortedScores(a, b, comparedKeys(a, b)) :
         LET bad == sampleCountNotProximal(a, b)
             msg0 == IF bad THEN <<sampleCountLine(a.NSamples, b.NSamples)>>
                     ELSE <<>>
             score0 == IF bad THEN badTimePenalty ELSE F(0)
             sum == weightedSum(s, 1, score0)
         IN  /\ acc0' = score0
             /\ scores' = s
             /\ acc' = sum
             /\ score' = Sqrt(sum)
             /\ msg' = msg0 \o bufString(s, 1)
             /\ ok' = thresholdMet(Sqrt(sum))
    /\ called' = "Proximal"
    /\ usedThreshold' = CmpThreshold
    /\ UNCHANGED <<CmpThreshold, a, b, key, ret, cmp>>

(***************************************************************************)
(* The callers of the package.                                             *)
(***************************************************************************)
Thresholds == {<<1, 10>>, <<1, 5>>, <<1, 2>>}

\* an assignment to the exported variable CmpThreshold
SetCmpThreshold ==
    /\ \E t \in Thresholds : CmpThreshold' = t
    /\ CmpThreshold' # CmpThreshold
    /\ UNCHANGED <<a, b, key, called, usedThreshold,
                   acc0, scores, acc, msg, score, ok, ret, cmp>>

CallIsCmpMetric ==
    /\ called \in {"none", "isCmpMetric"}
    /\ ret' = isCmpMetric(key)
    /\ called' = "isCmpMetric"
    /\ UNCHANGED <<CmpThreshold, a, b, key, usedThreshold,
                   acc0, scores, acc, msg, score, ok, cmp>>

CallCompareMetrics ==
    /\ called \in {"none", "compareMetrics"}
    /\ cmp' = compareMetrics(a, b, key)
    /\ called' = "compareMetrics"
    /\ usedThreshold' = CmpThreshold
    /\ UNCHANGED <<CmpThreshold, a, b, key,
                   acc0, scores, acc, msg, score, ok, ret>>

(***************************************************************************)
(* Inputs.                                                                 *)
(***************************************************************************)
Keys ==
    { "start",
      "serverStatus.mem.resident",
      "serverStatus.mem.resident.extra",
      "notAMetric.foo" }

MetricStat(med, mad) == [Median |-> med, MAD |-> mad]

ValuesA == {MetricStat(50, 2)}

ValuesB ==
    { MetricStat(50, 2), MetricStat(100, 2), MetricStat(40, 2),
      MetricStat(-50, 4) }

\* the sample counts of a and of b
SampleCounts ==
    { <<0, 0>>, <<100, 100>>, <<125, 100>>, <<100, 130>> }

\* the maps of at most MaxMetrics keys to vals; the key outside the
\* allow-list, which Proximal never looks up, carries one value per side
MetricMaps(vals, other) ==
    LET maps == UNION {[ks -> vals \cup {other}] :
                         ks \in {t \in SUBSET Keys : Cardinality(t) <= MaxMetrics}}
    IN  {m \in maps : \A k \in DOMAIN m : (m[k] = other) <=> (k = "notAMetric.foo")}

Stats(count, vals, other) ==
    [NSamples : {count}, Metrics : MetricMaps(vals, other)]

NoResult ==
    /\ called = "none"
    /\ usedThreshold = DefaultCmpThreshold
    /\ acc0 = F(0)
    /\ scores = <<>>
    /\ acc = F(0)
    /\ msg = <<>>
    /\ score = Sqrt(F(0))
    /\ ok = FALSE
    /\ ret = FALSE
    /\ cmp = [num |-> F(0), msg |-> <<>>]

\* two Stats handed to Proximal
Init ==
    /\ CmpThreshold = DefaultCmpThreshold
    /\ \E n \in SampleCounts :
         /\ a \in Stats(n[1], ValuesA, MetricStat(7, 1))
         /\ b \in Stats(n[2], ValuesB, MetricStat(9, 3))
    /\ key = ""
    /\ NoResult

Next == SetCmpThreshold \/ Proximal

Spec == Init /\ [][Next]_vars

\* one metric with any integer statistics handed to compareMetrics
StatRange == (-MaxAbs)..MaxAbs

InitCompare ==
    /\ CmpThreshold = DefaultCmpThreshold
    /\ key = "start"
    /\ \E am, bm \in [Median : StatRange, MAD : StatRange] :
         /\ a = [NSamples |-> 100, Metrics |-> [k \in {key} |-> am]]
         /\ b = [NSamples |-> 100, Metrics |-> [k \in {key} |-> bm]]
    /\ NoResult

NextCompare == SetCmpThreshold \/ CallCompareMetrics

SpecCompare == InitCompare /\ [][NextCompare]_vars

\* a key handed to isCmpMetric
Chunks ==
    { "serverStatus", ".mem.resident", ".", "X", "extra", "notAMetric.foo",
      "start" }

RECURSIVE KeysOfChunks(_)
KeysOfChunks(n) ==
    IF n = 0 THEN {""}
    ELSE LET shorter == KeysOfChunks(n - 1)
         IN  shorter \cup {k \o c : k \in shorter, c \in Chunks}

EmptyStats == [NSamples |-> 0, Metrics |-> <<>>]

InitFilter ==
    /\ CmpThreshold = DefaultCmpThreshold
    /\ key \in KeysOfChunks(MaxChunks)
    /\ a = EmptyStats
    /\ b = EmptyStats
    /\ NoResult

NextFilter == CallIsCmpMetric

SpecFilter == InitFilter /\ [][NextFilter]_vars

(***************************************************************************)
(* Properties.                                                             *)
(***************************************************************************)
ProximalCalled == called = "Proximal"

Nums(s) == [i \in 1..Len(s) |-> s[i].num]

HasSampleCountLine(m) == \E i \in 1..Len(m) : m[i].kind = "sample count"

\* C1: comparing a Stats with a non-zero sample count against itself at the
\* default threshold scores every compared metric 1, gives ok = true and an
\* empty message.
ExactMatch ==
    (ProximalCalled /\ a = b /\ a.NSamples > 0
        /\ usedThreshold = DefaultCmpThreshold)
    => /\ \A i \in 1..Len(scores) : scores[i].num = F(1)
       /\ ok
       /\ msg = <<>>

\* C2: with equal non-zero sample counts and every compared metric (at least
\* one) scoring 1, Proximal returns the score 1.0.
PerfectScore ==
    (ProximalCalled /\ a.NSamples = b.NSamples /\ a.NSamples # 0
        /\ Len(scores) >= 1
        /\ \A i \in 1..Len(scores) : scores[i].num = F(1))
    => score = Sqrt(F(1))

\* C3: for the same a and b, a call of Proximal that returned ok = true is
\* followed, after CmpThreshold has been raised, by a call that returns ok =
\* true.
ThresholdMonotonic ==
    [][(ProximalCalled /\ ProximalCalled' /\ ok
          /\ FLt(usedThreshold, usedThreshold'))
       => ok']_vars

ThresholdRaisedAfterOk ==
    /\ ProximalCalled
    /\ ok
    /\ usedThreshold = <<1, 5>>
    /\ CmpThreshold = <<1, 2>>
    /\ acc0 = <<-1, 10>>

\* C4: the accumulator starts at -0.1 and the message starts with the sample
\* count line exactly when |a.NSamples - b.NSamples| / max(a.NSamples,
\* b.NSamples) exceeds the threshold; otherwise, and in particular when both
\* counts are 0, it starts at 0 and the message has no sample count line.
SampleCountPenalty ==
    ProximalCalled =>
      LET diff == Abs(a.NSamples - b.NSamples)
          max == IF a.NSamples > b.NSamples THEN a.NSamples ELSE b.NSamples
          exceeds == max > 0 /\ diff * usedThreshold[2] > usedThreshold[1] * max
      IN  /\ exceeds =>
               /\ acc0 = <<-1, 10>>
               /\ Len(msg) >= 1
               /\ msg[1].kind = "sample count"
               /\ msg[1].x = a.NSamples
               /\ msg[1].y = b.NSamples
               /\ ~HasSampleCountLine(Tail(msg))
          /\ ~exceeds =>
               /\ acc0 = F(0)
               /\ ~HasSampleCountLine(msg)
          /\ (a.NSamples = 0 /\ b.NSamples = 0) => ~exceeds

SampleCountPenalised ==
    /\ ProximalCalled
    /\ a.NSamples = 100
    /\ b.NSamples = 130
    /\ usedThreshold = <<1, 5>>
    /\ acc0 = <<-1, 10>>
    /\ HasSampleCountLine(msg)

\* the first k segments of a key joined by '.', for every k: the key cut
\* before each of its dots, and the key itself
SegmentPrefixes(k) ==
    {SubSeq(k, 1, i - 1) : i \in {j \in 1..Len(k) : SubSeq(k, j, j) = "."}}
        \cup {k}

\* C5: isCmpMetric(key) is true exactly when the first k dot-separated
\* segments of key, joined by '.', are an entry of the allow-list for some
\* k >= 1; a key that only shares leading characters with an entry, a bare
\* "serverStatus" and the empty key are not comparable.
FilterPrefixSemantics ==
    called = "isCmpMetric" =>
      /\ ret = (SegmentPrefixes(key) \cap cmpMetrics # {})
      /\ key \in {"serverStatus.mem.resident",
                  "serverStatus.mem.resident.extra"} => ret
      /\ key \in {"notAMetric.foo", "", "serverStatus",
                  "serverStatus.mem.residentX"} => ~ret

FilterAncestorListed ==
    /\ called = "isCmpMetric"
    /\ key = "serverStatus.mem.resident.extra"
    /\ ret

\* sum over i of s[i] * 2^-i for i = 1..Len(s)
RECURSIVE RankSum(_)
RankSum(s) ==
    IF s = <<>> THEN F(0)
    ELSE FMul(<<1, 2>>, FAdd(Head(s), RankSum(Tail(s))))

\* C6: the value whose square root is taken is the sample-count accumulator
\* (0 or -0.1) plus the sum of s_i * 2^-(i+1) over the ascending scores s_0
\* <= s_1 <= ... of exactly the keys of both maps that pass the filter; for
\* the scores 0.5, 0.8, 1.0 the sum is 0.25 + 0.2 + 0.125.
RankWeighting ==
    ProximalCalled =>
      LET ks == {k \in DOMAIN a.Metrics \cap DOMAIN b.Metrics : isCmpMetric(k)}
          n == Cardinality(ks)
          num == [k \in ks |-> compareMetrics(a, b, k).num]
          s == Nums(scores)
      IN  /\ Len(scores) = n
          /\ \A k \in ks :
               Cardinality({i \in 1..n : s[i] = num[k]})
                   = Cardinality({j \in ks : num[j] = num[k]})
          /\ \A i \in 1..n : i < n => FLe(s[i], s[i + 1])
          /\ acc0 \in {F(0), <<-1, 10>>}
          /\ acc = FAdd(acc0, RankSum(s))
          /\ s = << <<1, 2>>, <<4, 5>>, <<1, 1>> >>
               => FSub(acc, acc0) = <<23, 40>>

ThreeRankedScores ==
    /\ ProximalCalled
    /\ Nums(scores) = << <<1, 2>>, <<4, 5>>, <<1, 1>> >>

MedianMismatchInput ==
    /\ ProximalCalled
    /\ usedThreshold = <<1, 5>>
    /\ a = [NSamples |-> 100,
            Metrics |-> [k \in {"serverStatus.mem.resident"} |-> MetricStat(50, 2)]]
    /\ b = [NSamples |-> 100,
            Metrics |-> [k \in {"serverStatus.mem.resident"} |-> MetricStat(100, 2)]]

MedianMismatchMessage ==
    << [kind |-> "medians", key |-> "serverStatus.mem.resident",
        x |-> 50, y |-> 100, pct |-> 20] >>

\* C7 as stated: in the scenario (medians 50 and 100, MAD 2, 100 samples,
\* threshold 0.2) the per-metric score is negative or near zero (at most
\* 0.1), the message is the medians line citing (50, 100) and 20 with no
\* deviations line, and ok is false.
MedianMismatchOriginal ==
    MedianMismatchInput =>
      /\ Len(scores) = 1
      /\ FLe(scores[1].num, <<1, 10>>)
      /\ msg = MedianMismatchMessage
      /\ ~ok

\* C7 as amended: in the scenario the relative median deviation is 50%, so
\* the per-metric score is 0.5 and the final score is 0.5; the message is the
\* medians line citing (50, 100) and 20 with no deviations line, and ok is
\* false.
MedianMismatchAmended ==
    MedianMismatchInput =>
      /\ scores = << [num |-> <<1, 2>>, msg |-> MedianMismatchMessage] >>
      /\ score = [nan |-> FALSE, sq |-> <<1, 4>>]
      /\ msg = MedianMismatchMessage
      /\ ~ok

\* C8 as stated: the score of compareMetrics lies between -0.1 and 1.
MetricScoreRangeOriginal ==
    called = "compareMetrics" =>
      /\ FLe(<<-1, 10>>, cmp.num)
      /\ FLe(cmp.num, F(1))

\* C8 as amended: the score of compareMetrics lies between -1 and 1, for all
\* integer Median and MAD values, negative ones and ones of opposite sign
\* included.
MetricScoreRange ==
    called = "compareMetrics" =>
      /\ FLe(F(-1), cmp.num)
      /\ FLe(cmp.num, F(1))

OppositeSignMedians ==
    /\ called = "compareMetrics"
    /\ a.Metrics[key].Median > 0
    /\ b.Metrics[key].Median < 0
    /\ a.Metrics[key].MAD < 0
    /\ cmp.num = F(-1)

\* C9: two calls of Proximal on the same a and b under the same threshold
\* return the same message, score and ok, whatever the order of iteration
\* over a.Metrics and the outcome of the sort.
DeterministicResult ==
    [][(ProximalCalled /\ ProximalCalled' /\ usedThreshold' = usedThreshold)
       => (msg' = msg /\ score' = score /\ ok' = ok)]_vars

\* C10: whenever Proximal returns ok = false the message is not empty.
FailureExplained ==
    (ProximalCalled /\ ~ok) => msg # <<>>

=============================================================================
